---------------------------- MODULE Spec2Model ----------------------------
(***************************************************************************)
(* Model of the HTTP gateway (the Node http server with setCors, sendJson  *)
(* and the request handler) of the MAI Copilot backend, and of its client, *)
(* the browser extension's content script and options page.                *)
(*                                                                         *)
(* Text is a sequence of characters; a character is a one-character        *)
(* string, except the two non-ASCII characters "U+E9" (e acute) and        *)
(* "U+FFFD" (the replacement character).  A byte is the ASCII character it *)
(* encodes, or "xC3" / "xA9" (the UTF-8 encoding of U+E9).                 *)
(***************************************************************************)
EXTENDS Integers, Sequences, FiniteSets, TLC

(***************************************************************************)
(* Bounds of the model.                                                    *)
(***************************************************************************)
MaxConns == 2      \* connections in flight in the concurrent specification
MaxLabels == 2     \* subdomain labels in a generated Origin
MaxChunks == 2     \* 'data' events a request body is split into
MaxHosts == 2      \* HUD host elements the content script creates

Conns == 1..MaxConns

(***************************************************************************)
(* Text helpers.                                                           *)
(***************************************************************************)
LowerMap ==
  [A |-> "a", B |-> "b", C |-> "c", D |-> "d", E |-> "e", F |-> "f",
   G |-> "g", H |-> "h", I |-> "i", J |-> "j", K |-> "k", L |-> "l",
   M |-> "m", N |-> "n", O |-> "o", P |-> "p", Q |-> "q", R |-> "r",
   S |-> "s", T |-> "t", U |-> "u", V |-> "v", W |-> "w", X |-> "x",
   Y |-> "y", Z |-> "z"]

\* Case folding of the /i flag: ASCII letters only.
LowerChar(c) == IF c \in DOMAIN LowerMap THEN LowerMap[c] ELSE c

LowerText(s) == [k \in 1..Len(s) |-> LowerChar(s[k])]

StartsWith(s, p) == Len(s) >= Len(p) /\ SubSeq(s, 1, Len(p)) = p

Digits == <<"0", "1", "2", "3", "4", "5", "6", "7", "8", "9">>

IsDigit(c) == \E d \in 1..10 : Digits[d] = c

RECURSIVE Concat(_)
Concat(ss) == IF ss = <<>> THEN <<>> ELSE Head(ss) \o Concat(Tail(ss))

S_https == <<"h", "t", "t", "p", "s", ":", "/", "/">>
S_sunfire == <<"s", "u", "n", "f", "i", "r", "e", "m", "a", "t", "r", "i", "x", ".", "c", "o", "m">>
S_localhost == <<"h", "t", "t", "p", ":", "/", "/", "l", "o", "c", "a", "l", "h", "o", "s", "t">>
S_extension == <<"c", "h", "r", "o", "m", "e", "-", "e", "x", "t", "e", "n", "s", "i", "o", "n", ":", "/", "/">>

(***************************************************************************)
(* setCors: the three origin tests.                                        *)
(***************************************************************************)
\* ([^.]+\.)* on the whole of m: groups of one or more non-dot characters,
\* each closed by a dot.
IsLabelRun(m) ==
  \/ m = <<>>
  \/ /\ m[Len(m)] = "."
     /\ m[1] # "."
     /\ \A k \in 1..(Len(m) - 1) : ~(m[k] = "." /\ m[k + 1] = ".")

\* https:\/\/([^.]+\.)*sunfirematrix\.com$ with /i, matched starting at i.
SunfireAt(origin, i) ==
  LET rest == SubSeq(origin, i, Len(origin))
      n == Len(rest)
  IN /\ n >= Len(S_https) + Len(S_sunfire)
     /\ LowerText(SubSeq(rest, 1, Len(S_https))) = S_https
     /\ LowerText(SubSeq(rest, n - Len(S_sunfire) + 1, n)) = S_sunfire
     /\ IsLabelRun(SubSeq(rest, Len(S_https) + 1, n - Len(S_sunfire)))

\* RegExp.prototype.test without ^: the match may start at any index.
isSunfire(origin) == \E i \in 1..Len(origin) : SunfireAt(origin, i)

\* /^http:\/\/localhost(?::\d+)?$/i
isLocal(origin) ==
  LET n == Len(S_localhost)
      rest == SubSeq(origin, n + 1, Len(origin))
  IN /\ Len(origin) >= n
     /\ LowerText(SubSeq(origin, 1, n)) = S_localhost
     /\ \/ rest = <<>>
        \/ /\ Len(rest) >= 2
           /\ rest[1] = ":"
           /\ \A k \in 2..Len(rest) : IsDigit(rest[k])

\* origin.startsWith('chrome-extension://')
isExtension(origin) == StartsWith(origin, S_extension)

(***************************************************************************)
(* JSON values.  An object is the sequence of its <<key, value>> pairs in  *)
(* insertion order.                                                        *)
(***************************************************************************)
JNull == [t |-> "null"]
JBool(b) == [t |-> "bool", b |-> b]
JNum(n) == [t |-> "num", n |-> n]
JStr(s) == [t |-> "str", s |-> s]
JArr(a) == [t |-> "arr", a |-> a]
JObj(o) == [t |-> "obj", o |-> o]

S_null == <<"n", "u", "l", "l">>
S_true == <<"t", "r", "u", "e">>
S_false == <<"f", "a", "l", "s", "e">>

(***************************************************************************)
(* JSON.stringify on JSON values (no indentation).  Quote escapes the      *)
(* double quote and the backslash; the model's alphabet has no control     *)
(* characters.                                                             *)
(***************************************************************************)
RECURSIVE NumText(_)
NumText(n) ==
  IF n < 0 THEN <<"-">> \o NumText(-n)
  ELSE IF n < 10 THEN <<Digits[n + 1]>>
  ELSE NumText(n \div 10) \o <<Digits[(n % 10) + 1]>>

RECURSIVE EscapeText(_)
EscapeText(s) ==
  IF s = <<>> THEN <<>>
  ELSE (IF Head(s) \in {"\"", "\\"} THEN <<"\\", Head(s)>> ELSE <<Head(s)>>)
       \o EscapeText(Tail(s))

Quote(s) == <<"\"">> \o EscapeText(s) \o <<"\"">>

RECURSIVE JSONstringify(_)
RECURSIVE StringifyElems(_)
RECURSIVE StringifyMembers(_)
StringifyElems(a) ==
  IF a = <<>> THEN <<>>
  ELSE JSONstringify(Head(a))
       \o (IF Len(a) > 1 THEN <<",">> ELSE <<>>)
       \o StringifyElems(Tail(a))

StringifyMembers(o) ==
  IF o = <<>> THEN <<>>
  ELSE Quote(Head(o)[1]) \o <<":">> \o JSONstringify(Head(o)[2])
       \o (IF Len(o) > 1 THEN <<",">> ELSE <<>>)
       \o StringifyMembers(Tail(o))

JSONstringify(v) ==
  CASE v.t = "null" -> S_null
    [] v.t = "bool" -> (IF v.b THEN S_true ELSE S_false)
    [] v.t = "num" -> NumText(v.n)
    [] v.t = "str" -> Quote(v.s)
    [] v.t = "arr" -> <<"[">> \o StringifyElems(v.a) \o <<"]">>
    [] v.t = "obj" -> <<"{">> \o StringifyMembers(v.o) \o <<"}">>

(***************************************************************************)
(* JSON.parse.  A parse step returns [ok, v, next]: the value read and the *)
(* index after it, or ok = FALSE where JSON.parse throws SyntaxError.      *)
(* Numbers are integers and the string escapes are \" \\ \/ (the forms the *)
(* model's alphabet can spell).                                            *)
(***************************************************************************)
ParseFail == [ok |-> FALSE]
ParseOk(v, next) == [ok |-> TRUE, v |-> v, next |-> next]

RECURSIVE SkipWs(_, _)
SkipWs(s, i) == IF i <= Len(s) /\ s[i] = " " THEN SkipWs(s, i + 1) ELSE i

LiteralAt(s, i, lit) ==
  i + Len(lit) - 1 <= Len(s) /\ SubSeq(s, i, i + Len(lit) - 1) = lit

DigitValue(c) == (CHOOSE d \in 1..10 : Digits[d] = c) - 1

RECURSIVE ScanDigits(_, _, _)
ScanDigits(s, i, acc) ==
  IF i <= Len(s) /\ IsDigit(s[i])
  THEN ScanDigits(s, i + 1, acc * 10 + DigitValue(s[i]))
  ELSE ParseOk(JNum(acc), i)

\* -?(0|[1-9][0-9]*)
ParseNumber(s, i) ==
  LET neg == s[i] = "-"
      j == IF neg THEN i + 1 ELSE i
      r == IF j > Len(s) \/ ~IsDigit(s[j]) THEN ParseFail
           ELSE IF s[j] = "0" THEN ParseOk(JNum(0), j + 1)
           ELSE ScanDigits(s, j, 0)
  IN IF r.ok /\ neg THEN ParseOk(JNum(-(r.v.n)), r.next) ELSE r

\* i is the index after the opening quote.
RECURSIVE ScanString(_, _, _)
ScanString(s, i, acc) ==
  IF i > Len(s) THEN ParseFail
  ELSE IF s[i] = "\"" THEN ParseOk(JStr(acc), i + 1)
  ELSE IF s[i] = "\\"
       THEN IF i + 1 <= Len(s) /\ s[i + 1] \in {"\"", "\\", "/"}
            THEN ScanString(s, i + 2, Append(acc, s[i + 1]))
            ELSE ParseFail
  ELSE ScanString(s, i + 1, Append(acc, s[i]))

\* Object member assignment: a repeated key keeps its first position and
\* takes the last value.
SetMember(o, k, v) ==
  IF \E p \in 1..Len(o) : o[p][1] = k
  THEN [p \in 1..Len(o) |-> IF o[p][1] = k THEN <<k, v>> ELSE o[p]]
  ELSE Append(o, <<k, v>>)

RECURSIVE ParseValue(_, _)
RECURSIVE ParseElems(_, _, _)
RECURSIVE ParseMembers(_, _, _)

\* i is the index of the next element; acc the elements read so far.
ParseElems(s, i, acc) ==
  LET r == ParseValue(s, i)
      j == IF r.ok THEN SkipWs(s, r.next) ELSE 0
  IN IF ~r.ok \/ j > Len(s) THEN ParseFail
     ELSE IF s[j] = "," THEN ParseElems(s, j + 1, Append(acc, r.v))
     ELSE IF s[j] = "]" THEN ParseOk(JArr(Append(acc, r.v)), j + 1)
     ELSE ParseFail

\* i is the index of the next member; acc the members read so far.
ParseMembers(s, i, acc) ==
  LET k == SkipWs(s, i)
      key == IF k <= Len(s) /\ s[k] = "\"" THEN ScanString(s, k + 1, <<>>)
             ELSE ParseFail
      c == IF key.ok THEN SkipWs(s, key.next) ELSE 0
      r == IF key.ok /\ c <= Len(s) /\ s[c] = ":" THEN ParseValue(s, c + 1)
           ELSE ParseFail
      j == IF r.ok THEN SkipWs(s, r.next) ELSE 0
  IN IF ~r.ok \/ j > Len(s) THEN ParseFail
     ELSE IF s[j] = "," THEN ParseMembers(s, j + 1, SetMember(acc, key.v.s, r.v))
     ELSE IF s[j] = "}" THEN ParseOk(JObj(SetMember(acc, key.v.s, r.v)), j + 1)
     ELSE ParseFail

ParseValue(s, i) ==
  LET j == SkipWs(s, i)
  IN IF j > Len(s) THEN ParseFail
     ELSE IF s[j] = "{"
          THEN LET k == SkipWs(s, j + 1)
               IN IF k <= Len(s) /\ s[k] = "}" THEN ParseOk(JObj(<<>>), k + 1)
                  ELSE ParseMembers(s, j + 1, <<>>)
     ELSE IF s[j] = "["
          THEN LET k == SkipWs(s, j + 1)
               IN IF k <= Len(s) /\ s[k] = "]" THEN ParseOk(JArr(<<>>), k + 1)
                  ELSE ParseElems(s, j + 1, <<>>)
     ELSE IF s[j] = "\"" THEN ScanString(s, j + 1, <<>>)
     ELSE IF LiteralAt(s, j, S_null) THEN ParseOk(JNull, j + Len(S_null))
     ELSE IF LiteralAt(s, j, S_true) THEN ParseOk(JBool(TRUE), j + Len(S_true))
     ELSE IF LiteralAt(s, j, S_false) THEN ParseOk(JBool(FALSE), j + Len(S_false))
     ELSE IF s[j] = "-" \/ IsDigit(s[j]) THEN ParseNumber(s, j)
     ELSE ParseFail

\* JSON.parse(text): one value, then only whitespace to the end of the text.
JSONparse(text) ==
  LET r == ParseValue(text, 1)
  IN IF r.ok /\ SkipWs(text, r.next) > Len(text)
     THEN [ok |-> TRUE, v |-> r.v]
     ELSE ParseFail

(***************************************************************************)
(* Buffer <-> string.  BufferToString is chunk.toString() (UTF-8 decoding  *)
(* of one chunk on its own); ByteLength is Buffer.byteLength(text).        *)
(***************************************************************************)
RECURSIVE BufferToString(_)
BufferToString(bytes) ==
  IF bytes = <<>> THEN <<>>
  ELSE IF Head(bytes) = "xC3"
       THEN IF Len(bytes) >= 2 /\ bytes[2] = "xA9"
            THEN <<"U+E9">> \o BufferToString(Tail(Tail(bytes)))
            ELSE <<"U+FFFD">> \o BufferToString(Tail(bytes))
  ELSE IF Head(bytes) = "xA9" THEN <<"U+FFFD">> \o BufferToString(Tail(bytes))
  ELSE <<Head(bytes)>> \o BufferToString(Tail(bytes))

CharBytes(c) == IF c = "U+E9" THEN 2 ELSE IF c = "U+FFFD" THEN 3 ELSE 1

RECURSIVE ByteLength(_)
ByteLength(text) ==
  IF text = <<>> THEN 0 ELSE CharBytes(Head(text)) + ByteLength(Tail(text))


(***************************************************************************)
(* http.ServerResponse.  headers is the map built by setHeader; head is    *)
(* the sequence of response heads written by writeHead (status and the     *)
(* headers sent with it); ended is the sequence of bodies passed to end.   *)
(* Header values are Text.                                                 *)
(***************************************************************************)
NoHeaders == [n \in {} |-> <<>>]

NewResponse == [headers |-> NoHeaders, head |-> <<>>, ended |-> <<>>]

setHeader(r, name, value) ==
  [r EXCEPT !.headers =
     [n \in DOMAIN r.headers \cup {name} |->
        IF n = name THEN value ELSE r.headers[n]]]

\* writeHead(status, headers): the given headers are merged over those
\* already set, and the head is written.
writeHead(r, status, hdrs) ==
  LET merged == [n \in DOMAIN r.headers \cup DOMAIN hdrs |->
                   IF n \in DOMAIN hdrs THEN hdrs[n] ELSE r.headers[n]]
  IN [r EXCEPT !.headers = merged,
               !.head = Append(@, [status |-> status, headers |-> merged])]

end(r, data) == [r EXCEPT !.ended = Append(@, data)]

S_methods == <<"G", "E", "T", ",", " ", "P", "O", "S", "T", ",", " ", "O", "P", "T", "I", "O", "N", "S">>
S_allowHeaders == <<"C", "o", "n", "t", "e", "n", "t", "-", "T", "y", "p", "e", ",", " ", "A", "u", "t", "h", "o", "r", "i", "z", "a", "t", "i", "o", "n">>
S_maxAge == <<"8", "6", "4", "0", "0">>
S_Origin == <<"O", "r", "i", "g", "i", "n">>
S_json == <<"a", "p", "p", "l", "i", "c", "a", "t", "i", "o", "n", "/", "j", "s", "o", "n">>
S_error == <<"e", "r", "r", "o", "r">>
S_status == <<"s", "t", "a", "t", "u", "s">>
S_ok == <<"o", "k">>
S_NotFound == <<"N", "o", "t", " ", "f", "o", "u", "n", "d">>
S_InvalidJSON == <<"I", "n", "v", "a", "l", "i", "d", " ", "J", "S", "O", "N">>
S_Internal == <<"I", "n", "t", "e", "r", "n", "a", "l", " ", "s", "e", "r", "v", "e", "r", " ", "e", "r", "r", "o", "r">>

ErrorPayload(msg) == JObj(<< <<S_error, JStr(msg)>> >>)

\* sendJson without res.end(body).
sendJsonNoEnd(r, status, payload) ==
  LET body == JSONstringify(payload)
  IN writeHead(r, status,
               [n \in {"Content-Type", "Content-Length"} |->
                  IF n = "Content-Type" THEN S_json
                  ELSE NumText(ByteLength(body))])

\* const body = JSON.stringify(payload) is computed once and used twice.
sendJson(r, status, payload) ==
  CHOOSE out \in
    {end(writeHead(r, status,
                   [n \in {"Content-Type", "Content-Length"} |->
                      IF n = "Content-Type" THEN S_json
                      ELSE NumText(ByteLength(body))]),
         body) : body \in {JSONstringify(payload)}} : TRUE

\* The classifier's decision: the origin matches one of the three tests.
Matched(origin) == isSunfire(origin) \/ isLocal(origin) \/ isExtension(origin)

\* req.headers.origin || ''
OriginOf(hdr) == IF hdr.present THEN hdr.value ELSE <<>>

\* setCors answering a matched origin with a wildcard and no Vary.
setCorsWildcard(request, r) ==
  LET origin == IF request.origin.present THEN request.origin.value ELSE <<>>
      r1 == IF Matched(origin)
            THEN setHeader(r, "Access-Control-Allow-Origin", <<"*">>)
            ELSE r
  IN setHeader(
       setHeader(
         setHeader(r1, "Access-Control-Allow-Methods", S_methods),
         "Access-Control-Allow-Headers", S_allowHeaders),
       "Access-Control-Max-Age", S_maxAge)

setCors(request, r) ==
  LET origin == OriginOf(request.origin)
      r1 == IF Matched(origin)
            THEN setHeader(setHeader(r, "Access-Control-Allow-Origin", origin),
                           "Vary", S_Origin)
            ELSE r
  IN setHeader(
       setHeader(
         setHeader(r1, "Access-Control-Allow-Methods", S_methods),
         "Access-Control-Allow-Headers", S_allowHeaders),
       "Access-Control-Max-Age", S_maxAge)

(***************************************************************************)
(* Requests the clients send.                                              *)
(***************************************************************************)
Methods == {"OPTIONS", "GET", "POST", "PUT"}

Urls == {"/plans", "/api/plans", "/ai-recommend", "/api/recommend",
         "/health", "/api/health", "/unknown-path", "/plans/", "/PLANS",
         "/plans?x=1"}

Header(value) == [present |-> TRUE, value |-> value]
NoHeader == [present |-> FALSE, value |-> <<>>]

S_evilHost == <<"e", "v", "i", "l", ".", "c", "o", "m">>
S_abc == <<"a", "b", "c">>

\* Origins sent with every kind of request.
CoreOrigins ==
  {NoHeader,
   Header(S_https \o S_sunfire),
   Header(S_extension \o S_abc),
   Header(S_https \o S_evilHost)}

\* Generated origins: junk, scheme, subdomain labels, host, tail.
OriginPre == {<<>>, <<"x">>}

OriginSchemes ==
  {S_https,
   <<"H", "T", "T", "P", "S", ":", "/", "/">>,
   <<"h", "t", "t", "p", ":", "/", "/">>,
   S_extension,
   <<"C", "h", "r", "o", "m", "e", "-", "E", "x", "t", "e", "n", "s", "i", "o", "n", ":", "/", "/">>,
   <<>>}

OriginLabels == {<<"a", ".">>, <<".">>}

OriginHosts ==
  {S_sunfire,
   <<"S", "u", "n", "f", "i", "r", "e", "M", "a", "t", "r", "i", "x", ".", "C", "O", "M">>,
   <<"s", "u", "n", "f", "i", "r", "e", "m", "a", "t", "r", "i", "x", "x", "c", "o", "m">>,
   <<"l", "o", "c", "a", "l", "h", "o", "s", "t">>,
   <<"l", "o", "c", "a", "l", "h", "o", "s", "t", ":", "5", "1", "7", "3">>,
   <<"l", "o", "c", "a", "l", "h", "o", "s", "t", ":">>,
   S_evilHost,
   S_abc}

OriginPost == {<<>>, <<"/">>, <<".">> \o S_evilHost}

RECURSIVE LabelRuns(_)
LabelRuns(k) ==
  IF k = 0 THEN {<<>>}
  ELSE LabelRuns(k - 1)
       \cup {l \o run : l \in OriginLabels, run \in LabelRuns(k - 1)}

GenOrigins ==
  {Header(pre \o scheme \o run \o host \o post) :
     pre \in OriginPre, scheme \in OriginSchemes, run \in LabelRuns(MaxLabels),
     host \in OriginHosts, post \in OriginPost}

\* Request bodies, as bytes.
Bodies ==
  {<<>>,
   <<"{", "}">>,
   <<"{">>,
   <<" ">>,
   <<"[", "1", "]">>,
   <<"{", "\"", "a", "\"", ":", "1", "}">>,
   <<"\"", "xC3", "xA9", "\"">>,
   <<"n", "u", "l">>}

\* The ways the transport delivers b in at most k non-empty chunks.
RECURSIVE Splits(_, _)
Splits(b, k) ==
  IF b = <<>> THEN {<<>>}
  ELSE IF k = 0 THEN {}
  ELSE UNION {{<<SubSeq(b, 1, i)>> \o rest :
                 rest \in Splits(SubSeq(b, i + 1, Len(b)), k - 1)} :
              i \in 1..Len(b)}

Chunkings == UNION {Splits(b, MaxChunks) : b \in Bodies}

Requests ==
  [method : {"POST"}, url : Urls, origin : CoreOrigins, chunks : Chunkings]
  \cup [method : Methods \ {"POST"}, url : Urls, origin : CoreOrigins,
        chunks : {<<>>, << <<"{", "}">> >>}]
  \cup [method : {"OPTIONS", "GET"}, url : {"/health", "/plans"},
        origin : GenOrigins, chunks : {<<>>}]

NoRequest == [method |-> "", url |-> "", origin |-> NoHeader, chunks |-> <<>>]

(***************************************************************************)
(* The collaborators fetchPlans and generateClosingScript: the values they *)
(* resolve with and the errors they reject with.                           *)
(***************************************************************************)
CollabValues ==
  {JNull,
   JNum(0),
   JBool(TRUE),
   JStr(<<"H", "i", " ", "\"", "x", "\"">>),
   JStr(<<"U+E9">>),
   JArr(<<>>),
   JObj(<< <<<<"p", "l", "a", "n", "s">>, JArr(<<JNum(12), JObj(<<>>)>>)>> >>)}

S_ETIMEDOUT == <<"E", "T", "I", "M", "E", "D", "O", "U", "T">>

CollabErrors ==
  {S_ETIMEDOUT,
   <<"c", "o", "n", "n", "e", "c", "t", " ", "E", "C", "O", "N", "N", "R", "E", "F", "U", "S", "E", "D", " ", "1", "0", ".", "0", ".", "0", ".", "5", ":", "4", "4", "3">>}

(***************************************************************************)
(* The request handler, one operator per run-to-completion step.  Each     *)
(* returns the response object, the next position of the request and, for  *)
(* the 'end' callback, the collaborator call it makes.                     *)
(***************************************************************************)
NoCall == <<>>

\* The handler calling setCors only after the preflight branch.
HandleRequestLateCors(request, r) ==
  LET r0 == setCors(request, r)
  IN IF request.method = "OPTIONS"
     THEN [res |-> end(writeHead(r, 204, NoHeaders), <<>>), pc |-> "done"]
     ELSE IF request.method = "GET"
             /\ (request.url = "/api/health" \/ request.url = "/health")
     THEN [res |-> end(writeHead(r0, 200, [n \in {"Content-Type"} |-> S_json]),
                       JSONstringify(JObj(<< <<S_status, JStr(S_ok)>> >>))),
           pc |-> "done"]
     ELSE IF request.method # "POST"
     THEN [res |-> sendJson(r0, 404, ErrorPayload(S_NotFound)), pc |-> "done"]
     ELSE [res |-> r0, pc |-> "buffering"]

\* The handler answering a preflight through sendJson.
HandleRequestPreflightJson(request, r) ==
  LET r0 == setCors(request, r)
  IN IF request.method = "OPTIONS"
     THEN [res |-> sendJson(r0, 204, JObj(<<>>)), pc |-> "done"]
     ELSE IF request.method = "GET"
             /\ (request.url = "/api/health" \/ request.url = "/health")
     THEN [res |-> end(writeHead(r0, 200, [n \in {"Content-Type"} |-> S_json]),
                       JSONstringify(JObj(<< <<S_status, JStr(S_ok)>> >>))),
           pc |-> "done"]
     ELSE IF request.method # "POST"
     THEN [res |-> sendJson(r0, 404, ErrorPayload(S_NotFound)), pc |-> "done"]
     ELSE [res |-> r0, pc |-> "buffering"]

\* The handler answering a wrong method on a POST route with 405.
HandleRequest405(request, r) ==
  LET r0 == setCors(request, r)
  IN IF request.method = "OPTIONS"
     THEN [res |-> end(writeHead(r0, 204, NoHeaders), <<>>), pc |-> "done"]
     ELSE IF request.method = "GET"
             /\ (request.url = "/api/health" \/ request.url = "/health")
     THEN [res |-> end(writeHead(r0, 200, [n \in {"Content-Type"} |-> S_json]),
                       JSONstringify(JObj(<< <<S_status, JStr(S_ok)>> >>))),
           pc |-> "done"]
     ELSE IF request.method # "POST"
     THEN [res |-> sendJson(r0,
                            IF request.url \in {"/plans", "/api/plans",
                                                "/ai-recommend", "/api/recommend"}
                            THEN 405 ELSE 404,
                            ErrorPayload(S_NotFound)),
           pc |-> "done"]
     ELSE [res |-> r0, pc |-> "buffering"]

\* The handler knowing only the legacy health path.
HandleRequestLegacyHealth(request, r) ==
  LET r0 == setCors(request, r)
  IN IF request.method = "OPTIONS"
     THEN [res |-> end(writeHead(r0, 204, NoHeaders), <<>>), pc |-> "done"]
     ELSE IF request.method = "GET" /\ request.url = "/health"
     THEN [res |-> end(writeHead(r0, 200, [n \in {"Content-Type"} |-> S_json]),
                       JSONstringify(JObj(<< <<S_status, JStr(S_ok)>> >>))),
           pc |-> "done"]
     ELSE IF request.method # "POST"
     THEN [res |-> sendJson(r0, 404, ErrorPayload(S_NotFound)), pc |-> "done"]
     ELSE [res |-> r0, pc |-> "buffering"]

\* The handler refusing origins the classifier does not match.
HandleRequestForbidUntrusted(request, r) ==
  LET r0 == setCors(request, r)
  IN IF request.origin.present /\ ~Matched(OriginOf(request.origin))
     THEN [res |-> sendJson(r0, 403, ErrorPayload(<<"F", "o", "r", "b", "i", "d", "d", "e", "n">>)),
           pc |-> "done"]
     ELSE IF request.method = "OPTIONS"
     THEN [res |-> end(writeHead(r0, 204, NoHeaders), <<>>), pc |-> "done"]
     ELSE IF request.method = "GET"
             /\ (request.url = "/api/health" \/ request.url = "/health")
     THEN [res |-> end(writeHead(r0, 200, [n \in {"Content-Type"} |-> S_json]),
                       JSONstringify(JObj(<< <<S_status, JStr(S_ok)>> >>))),
           pc |-> "done"]
     ELSE IF request.method # "POST"
     THEN [res |-> sendJson(r0, 404, ErrorPayload(S_NotFound)), pc |-> "done"]
     ELSE [res |-> r0, pc |-> "buffering"]

\* http.createServer(async (req, res) => { ... }) up to req.on('end', ...)
HandleRequest(request, r) ==
  LET r0 == setCors(request, r)
  IN IF request.method = "OPTIONS"
     THEN [res |-> end(writeHead(r0, 204, NoHeaders), <<>>), pc |-> "done"]
     ELSE IF request.method = "GET"
             /\ (request.url = "/api/health" \/ request.url = "/health")
     THEN [res |-> end(writeHead(r0, 200, [n \in {"Content-Type"} |-> S_json]),
                       JSONstringify(JObj(<< <<S_status, JStr(S_ok)>> >>))),
           pc |-> "done"]
     ELSE IF request.method # "POST"
     THEN [res |-> sendJson(r0, 404, ErrorPayload(S_NotFound)), pc |-> "done"]
     ELSE [res |-> r0, pc |-> "buffering"]

\* req.on('data', chunk => { body += chunk })
HandleData(text, chunk) == text \o BufferToString(chunk)

\* The 'end' listener with trailing-slash normalisation of the plan path.
HandleEndTrailingSlash(request, text, r) ==
  LET parsed == JSONparse(IF text = <<>> THEN <<"{", "}">> ELSE text)
  IN IF ~parsed.ok
     THEN [res |-> sendJson(r, 400, ErrorPayload(S_InvalidJSON)),
           pc |-> "done", call |-> NoCall]
     ELSE IF request.url \in {"/plans", "/plans/", "/api/plans"}
     THEN [res |-> r, pc |-> "awaiting",
           call |-> <<[fn |-> "fetchPlans", payload |-> parsed.v]>>]
     ELSE IF request.url = "/ai-recommend" \/ request.url = "/api/recommend"
     THEN [res |-> r, pc |-> "awaiting",
           call |-> <<[fn |-> "generateClosingScript", payload |-> parsed.v]>>]
     ELSE [res |-> sendJson(r, 404, ErrorPayload(S_NotFound)),
           pc |-> "done", call |-> NoCall]

\* The 'end' listener rejecting an unknown path before it parses the body.
HandleEndRouteFirst(request, text, r) ==
  LET parsed == JSONparse(IF text = <<>> THEN <<"{", "}">> ELSE text)
  IN IF request.url \notin {"/plans", "/api/plans", "/ai-recommend",
                            "/api/recommend"}
     THEN [res |-> sendJson(r, 404, ErrorPayload(S_NotFound)),
           pc |-> "done", call |-> NoCall]
     ELSE IF ~parsed.ok
     THEN [res |-> sendJson(r, 400, ErrorPayload(S_InvalidJSON)),
           pc |-> "done", call |-> NoCall]
     ELSE IF request.url = "/plans" \/ request.url = "/api/plans"
     THEN [res |-> r, pc |-> "awaiting",
           call |-> <<[fn |-> "fetchPlans", payload |-> parsed.v]>>]
     ELSE [res |-> r, pc |-> "awaiting",
           call |-> <<[fn |-> "generateClosingScript", payload |-> parsed.v]>>]

\* The 'end' listener with JSON.parse(body) in place of JSON.parse(body || '{}').
HandleEndNoDefault(request, text, r) ==
  LET parsed == JSONparse(text)
  IN IF ~parsed.ok
     THEN [res |-> sendJson(r, 400, ErrorPayload(S_InvalidJSON)),
           pc |-> "done", call |-> NoCall]
     ELSE IF request.url = "/plans" \/ request.url = "/api/plans"
     THEN [res |-> r, pc |-> "awaiting",
           call |-> <<[fn |-> "fetchPlans", payload |-> parsed.v]>>]
     ELSE IF request.url = "/ai-recommend" \/ request.url = "/api/recommend"
     THEN [res |-> r, pc |-> "awaiting",
           call |-> <<[fn |-> "generateClosingScript", payload |-> parsed.v]>>]
     ELSE [res |-> sendJson(r, 404, ErrorPayload(S_NotFound)),
           pc |-> "done", call |-> NoCall]

\* The 'end' listener invoking both collaborators on the plan paths.
HandleEndCallsBoth(request, text, r) ==
  LET parsed == JSONparse(IF text = <<>> THEN <<"{", "}">> ELSE text)
  IN IF ~parsed.ok
     THEN [res |-> sendJson(r, 400, ErrorPayload(S_InvalidJSON)),
           pc |-> "done", call |-> NoCall]
     ELSE IF request.url = "/plans" \/ request.url = "/api/plans"
     THEN [res |-> r, pc |-> "awaiting",
           call |-> <<[fn |-> "fetchPlans", payload |-> parsed.v],
                      [fn |-> "generateClosingScript", payload |-> parsed.v]>>]
     ELSE IF request.url = "/ai-recommend" \/ request.url = "/api/recommend"
     THEN [res |-> r, pc |-> "awaiting",
           call |-> <<[fn |-> "generateClosingScript", payload |-> parsed.v]>>]
     ELSE [res |-> sendJson(r, 404, ErrorPayload(S_NotFound)),
           pc |-> "done", call |-> NoCall]

\* req.on('end', async () => { ... }) up to the first await
HandleEnd(request, text, r) ==
  LET parsed == JSONparse(IF text = <<>> THEN <<"{", "}">> ELSE text)
  IN IF ~parsed.ok
     THEN [res |-> sendJson(r, 400, ErrorPayload(S_InvalidJSON)),
           pc |-> "done", call |-> NoCall]
     ELSE IF request.url = "/plans" \/ request.url = "/api/plans"
     THEN [res |-> r, pc |-> "awaiting",
           call |-> <<[fn |-> "fetchPlans", payload |-> parsed.v]>>]
     ELSE IF request.url = "/ai-recommend" \/ request.url = "/api/recommend"
     THEN [res |-> r, pc |-> "awaiting",
           call |-> <<[fn |-> "generateClosingScript", payload |-> parsed.v]>>]
     ELSE [res |-> sendJson(r, 404, ErrorPayload(S_NotFound)),
           pc |-> "done", call |-> NoCall]

\* The success path wrapping the collaborator's value.
HandleResolveWrapped(r, v) ==
  sendJson(r, 200, JObj(<< <<<<"p", "l", "a", "n", "s">>, v>> >>))

\* the await resumes with the collaborator's value
HandleResolve(r, v) == sendJson(r, 200, v)

\* The catch block returning the error's message to the caller.
HandleRejectLeak(r, e) == sendJson(r, 500, ErrorPayload(e))

\* The catch block that only logs.
HandleRejectSilent(r, e) == r

\* the await throws: catch (err) { console.error(err); sendJson(res, 500, ...) }
HandleReject(r, e) == sendJson(r, 500, ErrorPayload(S_Internal))

(***************************************************************************)
(* The extension: the stored API base, the options page, getApiBase and    *)
(* pingAzure.                                                              *)
(***************************************************************************)
DEFAULT_API_BASE == <<"h", "t", "t", "p", "s", ":", "/", "/", "i", "c", "a", "r", "u", "s", "m", "a", "i", "5", "-", "f", "k", "h", "7", "g", "g", "e", "6", "e", "d", "h", "6", "a", "a", "b", "j", ".", "c", "e", "n", "t", "r", "a", "l", "u", "s", "-", "0", "1", ".", "a", "z", "u", "r", "e", "w", "e", "b", "s", "i", "t", "e", "s", ".", "n", "e", "t">>

S_apiHealth == <<"/", "a", "p", "i", "/", "h", "e", "a", "l", "t", "h">>

\* An API base a user configures.
S_customBase == <<"h", "t", "t", "p", ":", "/", "/", "a">>

\* String.prototype.trim
RECURSIVE TrimStart(_)
TrimStart(t) == IF t # <<>> /\ Head(t) = " " THEN TrimStart(Tail(t)) ELSE t

RECURSIVE TrimEnd(_)
TrimEnd(t) ==
  IF t # <<>> /\ t[Len(t)] = " " THEN TrimEnd(SubSeq(t, 1, Len(t) - 1)) ELSE t

Trim(t) == TrimEnd(TrimStart(t))

\* .replace(/\/$/, ''): one trailing slash is removed.
StripSlash(t) ==
  IF t # <<>> /\ t[Len(t)] = "/" THEN SubSeq(t, 1, Len(t) - 1) ELSE t

\* chrome.storage.sync: the apiBase item, if one was stored.
NoItem == [present |-> FALSE, value |-> <<>>]
Item(value) == [present |-> TRUE, value |-> value]

\* What the user types into the options page.
ApiBaseInputs ==
  {<<>>,
   <<"/">>,
   S_customBase,
   S_customBase \o <<"/">>,
   <<" ">> \o S_customBase \o <<"/", " ">>,
   S_customBase \o <<"/", "/">>}

\* options.js: the click listener of the Save button
SaveValue(input) == StripSlash(Trim(input))

\* chrome.storage.sync.get({ apiBase: DEFAULT_API_BASE }, ...) and the
\* callback of getApiBase
getApiBase(item) ==
  LET apiBase == IF item.present THEN item.value ELSE DEFAULT_API_BASE
  IN StripSlash(IF apiBase = <<>> THEN DEFAULT_API_BASE ELSE apiBase)

\* What fetch settles with: a response with a status, or a rejection.
FetchStatuses == {200, 201, 204, 299, 404, 500}

NoResponse == [kind |-> "none", status |-> 0]
NetworkError == [kind |-> "error", status |-> 0]
FetchResponse(status) == [kind |-> "response", status |-> status]

FetchOutcomes == {NetworkError} \cup {FetchResponse(n) : n \in FetchStatuses}

\* Response.ok
ResponseOk(status) == status >= 200 /\ status <= 299

\* pingAzure, after the fetch settled: return res.ok, or false in the catch.
pingAzureResult(response) ==
  IF response.kind = "error" THEN FALSE ELSE ResponseOk(response.status)

NoPing ==
  [pc |-> "idle", method |-> "", url |-> <<>>, response |-> NoResponse,
   ok |-> FALSE]

MountFailures == {"none", "appendChild", "getURL"}

(***************************************************************************)
(* State.                                                                  *)
(***************************************************************************)
VARIABLES
  pc,       \* per connection: "idle", "buffering", "awaiting", "done"
  req,      \* per connection: the request received
  pending,  \* per connection: body chunks the transport has not delivered
  body,     \* per connection: the handler's body string
  res,      \* per connection: the response object
  calls,    \* per connection: collaborator invocations, in order
  outcome,  \* per connection: how the awaited collaborator call completed
  stderr    \* console.error output

VARIABLES
  storage,         \* chrome.storage.sync: the apiBase item
  ping,            \* the pingAzure call started by the last click on Test
  injected,        \* window.__maiHudInjected
  HOST_CONTAINER,  \* the content script's HOST_CONTAINER: 0 is null
  State,           \* the content script's STATE (a reserved word here)
  attached,        \* host elements that are children of the document element
  wired,           \* host elements whose buttons have their click listeners
  created          \* host elements created so far

gatewayVars == <<pc, req, pending, body, res, calls, outcome, stderr>>

extVars ==
  <<storage, ping, injected, HOST_CONTAINER, State, attached, wired, created>>

vars == <<gatewayVars, extVars>>

NoOutcome == [kind |-> "none"]

Init ==
  /\ pc = [c \in Conns |-> "idle"]
  /\ req = [c \in Conns |-> NoRequest]
  /\ pending = [c \in Conns |-> <<>>]
  /\ body = [c \in Conns |-> <<>>]
  /\ res = [c \in Conns |-> NewResponse]
  /\ calls = [c \in Conns |-> <<>>]
  /\ outcome = [c \in Conns |-> NoOutcome]
  /\ stderr = <<>>
  /\ storage = NoItem
  /\ ping = NoPing
  /\ injected = FALSE
  /\ HOST_CONTAINER = 0
  /\ State = [mounted |-> FALSE]
  /\ attached = {}
  /\ wired = {}
  /\ created = 0

\* One of the requests arrives on connection c and the handler runs to its
\* return.
Request(c, requests) ==
  /\ pc[c] = "idle"
  /\ \E request \in requests :
       /\ LET h == HandleRequest(request, res[c])
          IN /\ res' = [res EXCEPT ![c] = h.res]
             /\ pc' = [pc EXCEPT ![c] = h.pc]
       /\ req' = [req EXCEPT ![c] = request]
       /\ pending' = [pending EXCEPT ![c] = request.chunks]
       /\ body' = [body EXCEPT ![c] = <<>>]
  /\ UNCHANGED <<calls, outcome, stderr>>
  /\ UNCHANGED extVars

\* The 'data' listener appending to a body string shared by all requests.
OnDataShared(c) ==
  /\ pc[c] = "buffering"
  /\ pending[c] # <<>>
  /\ body' = [d \in Conns |->
               IF pc[d] = "buffering"
               THEN HandleData(body[d], Head(pending[c]))
               ELSE body[d]]
  /\ pending' = [pending EXCEPT ![c] = Tail(@)]
  /\ UNCHANGED <<pc, req, res, calls, outcome, stderr>>
  /\ UNCHANGED extVars

\* The transport delivers the next chunk: the 'data' listener runs.
OnData(c) ==
  /\ pc[c] = "buffering"
  /\ pending[c] # <<>>
  /\ body' = [body EXCEPT ![c] = HandleData(@, Head(pending[c]))]
  /\ pending' = [pending EXCEPT ![c] = Tail(@)]
  /\ UNCHANGED <<pc, req, res, calls, outcome, stderr>>
  /\ UNCHANGED extVars

\* The transport signals end of stream: the 'end' listener runs to its
\* first await or to its return.
OnEnd(c) ==
  /\ pc[c] = "buffering"
  /\ pending[c] = <<>>
  /\ LET h == HandleEnd(req[c], body[c], res[c])
     IN /\ res' = [res EXCEPT ![c] = h.res]
        /\ pc' = [pc EXCEPT ![c] = h.pc]
        /\ calls' = [calls EXCEPT ![c] = @ \o h.call]
  /\ UNCHANGED <<req, pending, body, outcome, stderr>>
  /\ UNCHANGED extVars

\* The awaited collaborator resolves with v.
Resolve(c, v) ==
  /\ pc[c] = "awaiting"
  /\ res' = [res EXCEPT ![c] = HandleResolve(@, v)]
  /\ outcome' = [outcome EXCEPT ![c] = [kind |-> "value", v |-> v]]
  /\ pc' = [pc EXCEPT ![c] = "done"]
  /\ UNCHANGED <<req, pending, body, calls, stderr>>
  /\ UNCHANGED extVars

\* The awaited collaborator throws or rejects with e.
Reject(c, e) ==
  /\ pc[c] = "awaiting"
  /\ res' = [res EXCEPT ![c] = HandleReject(@, e)]
  /\ outcome' = [outcome EXCEPT ![c] = [kind |-> "error", e |-> e]]
  /\ stderr' = Append(stderr, e)
  /\ pc' = [pc EXCEPT ![c] = "done"]
  /\ UNCHANGED <<req, pending, body, calls>>
  /\ UNCHANGED extVars

\* One request, over the full range of inputs.
Next ==
  \/ Request(1, Requests)
  \/ OnData(1)
  \/ OnEnd(1)
  \/ \E v \in CollabValues : Resolve(1, v)
  \/ \E e \in CollabErrors : Reject(1, e)

Spec == Init /\ [][Next]_vars

\* The transport delivers every chunk and the end of stream of a request it
\* has accepted, and the awaited collaborator promise settles.
LiveRequests ==
  [method : {"POST"}, url : {"/plans", "/ai-recommend", "/unknown-path"},
   origin : {Header(S_https \o S_sunfire), Header(S_https \o S_evilHost)},
   chunks : Splits(<<>>, MaxChunks) \cup Splits(<<"{">>, MaxChunks)
            \cup Splits(<<"{", "}">>, MaxChunks)
            \cup Splits(<<"[", "1", "]">>, MaxChunks)]
  \cup [method : Methods \ {"POST"}, url : {"/plans", "/health"},
        origin : {NoHeader, Header(S_https \o S_sunfire)}, chunks : {<<>>}]

LiveValues == {JNum(0), JArr(<<>>)}

LiveErrors == {S_ETIMEDOUT}

Settle ==
  \/ \E v \in LiveValues : Resolve(1, v)
  \/ \E e \in LiveErrors : Reject(1, e)

NextLive ==
  \/ Request(1, LiveRequests)
  \/ OnData(1)
  \/ OnEnd(1)
  \/ Settle

SpecLive ==
  /\ Init
  /\ [][NextLive]_vars
  /\ WF_vars(OnData(1))
  /\ WF_vars(OnEnd(1))
  /\ WF_vars(Settle)

(***************************************************************************)
(* Several requests in flight: the listeners of different connections run  *)
(* in any order, each to completion.                                       *)
(***************************************************************************)
ConcRequests ==
  [method : {"POST"}, url : {"/plans", "/ai-recommend"},
   origin : {Header(S_https \o S_sunfire), Header(S_extension \o S_abc)},
   chunks : Splits(<<"{", "}">>, MaxChunks) \cup Splits(<<"{">>, MaxChunks)]
  \cup [method : {"OPTIONS"}, url : {"/plans"}, origin : CoreOrigins,
        chunks : {<<>>}]

ConcValues == {JNum(0), JArr(<<>>)}

ConcErrors == {S_ETIMEDOUT}

NextConc ==
  \/ \E c \in Conns : Request(c, ConcRequests)
  \/ \E c \in Conns : OnData(c)
  \/ \E c \in Conns : OnEnd(c)
  \/ \E c \in Conns : \E v \in ConcValues : Resolve(c, v)
  \/ \E c \in Conns : \E e \in ConcErrors : Reject(c, e)

SpecConc == Init /\ [][NextConc]_vars

(***************************************************************************)
(* Two requests in flight side by side, over requests that differ in       *)
(* method, path, Origin and body.                                          *)
(***************************************************************************)
PairConns == {1, 2}

PairRequests ==
  [method : {"POST"}, url : {"/plans", "/health", "/unknown-path"},
   origin : {NoHeader, Header(S_https \o S_sunfire), Header(S_https \o S_evilHost)},
   chunks : {<<>>, << <<"{">> >>, << <<"{", "}">> >>, << <<"{">>, <<"}">> >>}]
  \cup [method : {"OPTIONS", "GET"}, url : {"/plans", "/health", "/unknown-path"},
        origin : {NoHeader, Header(S_https \o S_sunfire), Header(S_https \o S_evilHost)},
        chunks : {<<>>}]

NextPair ==
  \/ \E c \in PairConns : Request(c, PairRequests)
  \/ \E c \in PairConns : OnData(c)
  \/ \E c \in PairConns : OnEnd(c)
  \/ \E c \in PairConns : \E v \in ConcValues : Resolve(c, v)
  \/ \E c \in PairConns : \E e \in ConcErrors : Reject(c, e)

SpecPair == Init /\ [][NextPair]_vars

(***************************************************************************)
(* The extension in a page: the content script is injected, the toolbar    *)
(* button sends MAI_TOGGLE_HUD, the user clicks the HUD's buttons and      *)
(* saves an API base in the options page.                                  *)
(***************************************************************************)

\* The content script is executed in the page (again).
Inject ==
  /\ IF injected
     THEN UNCHANGED <<injected, HOST_CONTAINER, State>>
     ELSE /\ injected' = TRUE
          /\ HOST_CONTAINER' = 0
          /\ State' = [mounted |-> FALSE]
  /\ UNCHANGED <<storage, ping, attached, wired, created>>
  /\ UNCHANGED gatewayVars

\* unmountHud()
UnmountHud ==
  /\ IF HOST_CONTAINER # 0
     THEN /\ attached' = attached \ {HOST_CONTAINER}
          /\ HOST_CONTAINER' = 0
     ELSE UNCHANGED <<attached, HOST_CONTAINER>>
  /\ State' = [State EXCEPT !.mounted = FALSE]
  /\ UNCHANGED <<wired, created>>

\* mountHud(); fail names the call that throws, if one does: appendChild
\* (the host is created but not attached) or chrome.runtime.getURL (the
\* host is attached but empty).
MountHud(fail) ==
  IF State.mounted
  THEN UNCHANGED <<HOST_CONTAINER, State, attached, wired, created>>
  ELSE /\ created < MaxHosts
       /\ created' = created + 1
       /\ HOST_CONTAINER' = created + 1
       /\ attached' = IF fail = "appendChild" THEN attached
                      ELSE attached \cup {created + 1}
       /\ wired' = IF fail = "none" THEN wired \cup {created + 1} ELSE wired
       /\ State' = IF fail = "none" THEN [State EXCEPT !.mounted = TRUE]
                   ELSE State

\* chrome.runtime.onMessage listener
OnMessage(type, fail) ==
  /\ injected
  /\ IF type = "MAI_TOGGLE_HUD"
     THEN IF State.mounted THEN UnmountHud ELSE MountHud(fail)
     ELSE UNCHANGED <<HOST_CONTAINER, State, attached, wired, created>>
  /\ UNCHANGED <<storage, ping, injected>>
  /\ UNCHANGED gatewayVars

\* A click on the close button of a HUD in the page.
CloseClick ==
  /\ attached \cap wired # {}
  /\ UnmountHud
  /\ UNCHANGED <<storage, ping, injected>>
  /\ UNCHANGED gatewayVars

\* options.js: a click on Save.
SaveOptions(input) ==
  /\ storage' = Item(SaveValue(input))
  /\ UNCHANGED <<ping, injected, HOST_CONTAINER, State, attached, wired, created>>
  /\ UNCHANGED gatewayVars

\* A click on the Test button of a HUD in the page: pingAzure starts.
PingClick ==
  /\ attached \cap wired # {}
  /\ ping.pc \in {"idle", "done"}
  /\ ping' = [NoPing EXCEPT !.pc = "reading"]
  /\ UNCHANGED <<storage, injected, HOST_CONTAINER, State, attached, wired, created>>
  /\ UNCHANGED gatewayVars

\* getApiBase resolves and pingAzure issues the fetch.
PingFetch ==
  /\ ping.pc = "reading"
  /\ ping' = [ping EXCEPT !.pc = "fetching", !.method = "GET",
                          !.url = getApiBase(storage) \o S_apiHealth]
  /\ UNCHANGED <<storage, injected, HOST_CONTAINER, State, attached, wired, created>>
  /\ UNCHANGED gatewayVars

\* The fetch settles and pingAzure returns.
PingSettle(response) ==
  /\ ping.pc = "fetching"
  /\ ping' = [ping EXCEPT !.pc = "done", !.response = response,
                          !.ok = pingAzureResult(response)]
  /\ UNCHANGED <<storage, injected, HOST_CONTAINER, State, attached, wired, created>>
  /\ UNCHANGED gatewayVars

NextExt ==
  \/ Inject
  \/ \E type \in {"MAI_TOGGLE_HUD", "MAI_OTHER"} :
       \E fail \in MountFailures : OnMessage(type, fail)
  \/ CloseClick
  \/ \E input \in ApiBaseInputs : SaveOptions(input)
  \/ PingClick
  \/ PingFetch
  \/ \E response \in FetchOutcomes : PingSettle(response)

SpecExt == Init /\ [][NextExt]_vars

(***************************************************************************)
(* Observations used by the properties.                                    *)
(***************************************************************************)
Responded(c) == Len(res[c].head) > 0
Status(c) == res[c].head[1].status
SentHeaders(c) == res[c].head[1].headers
SentBody(c) == res[c].ended[1]

\* The request body as the client sent it: all its bytes, decoded as UTF-8.
WholeBody(c) == BufferToString(Concat(req[c].chunks))

T_NotFound == <<"{", "\"", "e", "r", "r", "o", "r", "\"", ":", "\"", "N", "o", "t", " ", "f", "o", "u", "n", "d", "\"", "}">>
T_InvalidJSON == <<"{", "\"", "e", "r", "r", "o", "r", "\"", ":", "\"", "I", "n", "v", "a", "l", "i", "d", " ", "J", "S", "O", "N", "\"", "}">>
T_Internal == <<"{", "\"", "e", "r", "r", "o", "r", "\"", ":", "\"", "I", "n", "t", "e", "r", "n", "a", "l", " ", "s", "e", "r", "v", "e", "r", " ", "e", "r", "r", "o", "r", "\"", "}">>

PlanPaths == {"/plans", "/api/plans"}
ScriptPaths == {"/ai-recommend", "/api/recommend"}

(***************************************************************************)
(* C1: for every request the response head is written at most once and the *)
(* response is ended at most once, and a request whose handling has        *)
(* finished has exactly one response written.                              *)
(***************************************************************************)
C1_ExactlyOneResponse ==
  \A c \in Conns :
    /\ Len(res[c].head) <= 1
    /\ Len(res[c].ended) <= 1
    /\ pc[c] = "done" => Len(res[c].head) = 1 /\ Len(res[c].ended) = 1

\* A collaborator failure has been converted into the one response.
C1_Witness ==
  /\ pc[1] = "done"
  /\ outcome[1].kind = "error"
  /\ Len(res[1].head) = 1
  /\ Len(res[1].ended) = 1

(***************************************************************************)
(* C2: every response head that is written, on every path, carries the     *)
(* three unconditional CORS headers set by setCors, whether or not the     *)
(* origin matched.                                                         *)
(***************************************************************************)
C2_CorsOnEveryResponse ==
  \A c \in Conns :
    \A k \in 1..Len(res[c].head) :
      LET h == res[c].head[k].headers
      IN /\ {"Access-Control-Allow-Methods", "Access-Control-Allow-Headers",
             "Access-Control-Max-Age"} \subseteq DOMAIN h
         /\ h["Access-Control-Allow-Methods"] = S_methods
         /\ h["Access-Control-Allow-Headers"] = S_allowHeaders
         /\ h["Access-Control-Max-Age"] = S_maxAge

\* An error response (invalid JSON) to an unmatched origin carries them.
C2_Witness ==
  /\ Responded(1)
  /\ Status(1) = 400
  /\ req[1].origin = Header(S_https \o S_evilHost)
  /\ "Access-Control-Max-Age" \in DOMAIN SentHeaders(1)
  /\ "Access-Control-Allow-Origin" \notin DOMAIN SentHeaders(1)

(***************************************************************************)
(* C3: the classifier treats an origin as trusted if and only if the whole *)
(* string is https:// + zero or more labels + sunfirematrix.com            *)
(* (case-insensitive), or the whole string is http://localhost with an     *)
(* optional :digits (case-insensitive), or it starts with                  *)
(* chrome-extension://.                                                    *)
(***************************************************************************)
RECURSIVE C3_Labels(_)
C3_Labels(m) ==
  \/ m = <<>>
  \/ \E k \in 2..Len(m) :
       /\ m[k] = "."
       /\ \A j \in 1..(k - 1) : m[j] # "."
       /\ C3_Labels(SubSeq(m, k + 1, Len(m)))

C3_WholeSunfire(o) ==
  \E run \in {SubSeq(o, Len(S_https) + 1, k) : k \in Len(S_https)..Len(o)} :
    /\ LowerText(o) = S_https \o LowerText(run) \o S_sunfire
    /\ C3_Labels(run)

C3_WholeLocal(o) ==
  \/ LowerText(o) = S_localhost
  \/ \E k \in 1..Len(o) :
       /\ LowerText(SubSeq(o, 1, k)) = S_localhost \o <<":">>
       /\ k < Len(o)
       /\ \A j \in (k + 1)..Len(o) : IsDigit(o[j])

C3_Trusted(o) ==
  C3_WholeSunfire(o) \/ C3_WholeLocal(o) \/ StartsWith(o, S_extension)

C3_TrustedIffWholeStringMatch ==
  \A c \in Conns :
    pc[c] # "idle" =>
      (("Access-Control-Allow-Origin" \in DOMAIN res[c].headers)
         <=> C3_Trusted(OriginOf(req[c].origin)))

(***************************************************************************)
(* C4: in every response Access-Control-Allow-Origin is present exactly    *)
(* when Vary is; when present it is the request's own Origin string (not a *)
(* wildcard, not another request's origin) and Vary is Origin; when the    *)
(* classifier did not match the origin, neither header is set.             *)
(***************************************************************************)
C4_AllowOriginEchoesOwnOrigin ==
  \A c \in Conns :
    \A k \in 1..Len(res[c].head) :
      LET h == res[c].head[k].headers
          o == OriginOf(req[c].origin)
      IN /\ ("Access-Control-Allow-Origin" \in DOMAIN h) <=> ("Vary" \in DOMAIN h)
         /\ "Access-Control-Allow-Origin" \in DOMAIN h =>
              /\ h["Access-Control-Allow-Origin"] = o
              /\ h["Access-Control-Allow-Origin"] # <<"*">>
              /\ h["Vary"] = S_Origin
         /\ ~Matched(o) =>
              /\ "Access-Control-Allow-Origin" \notin DOMAIN h
              /\ "Vary" \notin DOMAIN h

\* Two requests with different matched origins are both answered, each with
\* its own origin.
C4_Witness ==
  /\ Responded(1)
  /\ Responded(2)
  /\ req[1].origin = Header(S_https \o S_sunfire)
  /\ req[2].origin = Header(S_extension \o S_abc)
  /\ "Access-Control-Allow-Origin" \in DOMAIN SentHeaders(1)
  /\ "Access-Control-Allow-Origin" \in DOMAIN SentHeaders(2)
  /\ SentHeaders(1)["Access-Control-Allow-Origin"] = S_https \o S_sunfire
  /\ SentHeaders(2)["Access-Control-Allow-Origin"] = S_extension \o S_abc

(***************************************************************************)
(* C5: a request with method OPTIONS, whatever its path and body, is       *)
(* answered 204 with an empty body and no Content-Type or Content-Length;  *)
(* none of its body is consumed or parsed and no collaborator is invoked.  *)
(***************************************************************************)
C5_PreflightAlways204 ==
  \A c \in Conns :
    req[c].method = "OPTIONS" =>
      /\ pc[c] = "done"
      /\ Len(res[c].head) = 1
      /\ Status(c) = 204
      /\ res[c].ended = << <<>> >>
      /\ "Content-Type" \notin DOMAIN SentHeaders(c)
      /\ "Content-Length" \notin DOMAIN SentHeaders(c)
      /\ body[c] = <<>>
      /\ pending[c] = req[c].chunks
      /\ calls[c] = <<>>
      /\ outcome[c] = NoOutcome

\* A preflight to a POST route that carries a body.
C5_Witness ==
  /\ req[1].method = "OPTIONS"
  /\ req[1].url = "/api/plans"
  /\ req[1].chunks # <<>>
  /\ Responded(1)
  /\ Status(1) = 204

(***************************************************************************)
(* C6: for a POST whose body parses as JSON the path decides, by exact     *)
(* string: /plans and /api/plans invoke only fetchPlans, /ai-recommend and *)
(* /api/recommend invoke only generateClosingScript, and every other path  *)
(* is answered 404 {"error":"Not found"} with no collaborator invoked.     *)
(***************************************************************************)
C6_ExactPathDispatch ==
  \A c \in Conns :
    (/\ req[c].method = "POST"
     /\ pc[c] \in {"awaiting", "done"}
     /\ JSONparse(WholeBody(c)).ok) =>
      IF req[c].url \in PlanPaths
      THEN Len(calls[c]) = 1 /\ calls[c][1].fn = "fetchPlans"
      ELSE IF req[c].url \in ScriptPaths
      THEN Len(calls[c]) = 1 /\ calls[c][1].fn = "generateClosingScript"
      ELSE /\ calls[c] = <<>>
           /\ pc[c] = "done"
           /\ Status(c) = 404
           /\ SentBody(c) = T_NotFound

\* A plan path with a trailing slash and a parseable body is answered 404.
C6_Witness ==
  /\ req[1].method = "POST"
  /\ req[1].url = "/plans/"
  /\ JSONparse(WholeBody(1)).ok
  /\ pc[1] = "done"
  /\ Status(1) = 404
  /\ calls[1] = <<>>

(***************************************************************************)
(* C7: when the selected collaborator resolves with a value v, the         *)
(* response is 200 and its body is the JSON text of v (it parses back to   *)
(* v).                                                                     *)
(***************************************************************************)
C7_SuccessIs200WithValue ==
  \A c \in Conns :
    outcome[c].kind = "value" =>
      /\ req[c].url \in PlanPaths \cup ScriptPaths
      /\ Len(res[c].head) = 1
      /\ Status(c) = 200
      /\ SentBody(c) = JSONstringify(outcome[c].v)
      /\ JSONparse(SentBody(c)) = [ok |-> TRUE, v |-> outcome[c].v]

\* generateClosingScript resolved with a string that needs escaping.
C7_Witness ==
  /\ outcome[1].kind = "value"
  /\ outcome[1].v.t = "str"
  /\ "\"" \in {outcome[1].v.s[k] : k \in 1..Len(outcome[1].v.s)}
  /\ calls[1][1].fn = "generateClosingScript"
  /\ Status(1) = 200

(***************************************************************************)
(* C8: when the selected collaborator throws or rejects, the response is   *)
(* 500 with body exactly {"error":"Internal server error"}, the same for   *)
(* every error.                                                            *)
(***************************************************************************)
C8_FailureIsOpaque500 ==
  \A c \in Conns :
    outcome[c].kind = "error" =>
      /\ Len(res[c].head) = 1
      /\ Status(c) = 500
      /\ SentBody(c) = T_Internal
      /\ SentHeaders(c)["Content-Length"] = <<"3", "3">>

\* fetchPlans rejected with an error naming an internal address.
C8_Witness ==
  /\ outcome[1].kind = "error"
  /\ outcome[1].e # S_ETIMEDOUT
  /\ calls[1][1].fn = "fetchPlans"
  /\ Status(1) = 500
  /\ stderr = <<outcome[1].e>>

(***************************************************************************)
(* C9: a POST whose non-empty body is not valid JSON is answered 400       *)
(* {"error":"Invalid JSON"} whatever the path, and no collaborator is      *)
(* invoked.                                                                *)
(***************************************************************************)
C9_InvalidJsonIs400 ==
  \A c \in Conns :
    (/\ req[c].method = "POST"
     /\ WholeBody(c) # <<>>
     /\ ~JSONparse(WholeBody(c)).ok) =>
      /\ pc[c] \in {"buffering", "done"}
      /\ calls[c] = <<>>
      /\ pc[c] = "done" =>
           /\ Len(res[c].head) = 1
           /\ Status(c) = 400
           /\ SentBody(c) = T_InvalidJSON

\* An unparseable body sent to an unknown path is answered 400, not 404.
C9_Witness ==
  /\ req[1].method = "POST"
  /\ req[1].url = "/unknown-path"
  /\ WholeBody(1) = <<"{">>
  /\ pc[1] = "done"
  /\ Status(1) = 400

(***************************************************************************)
(* C10: a POST with an empty body is never answered 400; the payload is    *)
(* the empty object and the path decides, so POST /plans with an empty     *)
(* body invokes fetchPlans with {}.                                        *)
(***************************************************************************)
C10_EmptyBodyIsEmptyObject ==
  \A c \in Conns :
    (/\ req[c].method = "POST"
     /\ Concat(req[c].chunks) = <<>>
     /\ pc[c] \in {"awaiting", "done"}) =>
      /\ Responded(c) => Status(c) # 400
      /\ req[c].url \in PlanPaths =>
           calls[c] = <<[fn |-> "fetchPlans", payload |-> JObj(<<>>)]>>
      /\ req[c].url \in ScriptPaths =>
           calls[c] = <<[fn |-> "generateClosingScript", payload |-> JObj(<<>>)]>>
      /\ req[c].url \notin PlanPaths \cup ScriptPaths =>
           calls[c] = <<>> /\ Status(c) = 404

\* POST /plans with no body has called fetchPlans({}).
C10_Witness ==
  /\ req[1].method = "POST"
  /\ req[1].url = "/plans"
  /\ req[1].chunks = <<>>
  /\ pc[1] = "awaiting"
  /\ calls[1] = <<[fn |-> "fetchPlans", payload |-> JObj(<<>>)]>>

HealthPaths == {"/health", "/api/health"}

T_StatusOk == <<"{", "\"", "s", "t", "a", "t", "u", "s", "\"", ":", "\"", "o", "k", "\"", "}">>

(***************************************************************************)
(* C11: a request whose method is neither OPTIONS nor POST, and that is    *)
(* not GET on exactly /health or /api/health, is answered 404              *)
(* {"error":"Not found"}; none of its body is consumed and no collaborator *)
(* is invoked.  GET /plans is 404, never 405.                              *)
(***************************************************************************)
C11_OtherMethodsAre404 ==
  \A c \in Conns :
    (/\ pc[c] # "idle"
     /\ req[c].method \notin {"OPTIONS", "POST"}
     /\ ~(req[c].method = "GET" /\ req[c].url \in HealthPaths)) =>
      /\ pc[c] = "done"
      /\ Len(res[c].head) = 1
      /\ Status(c) = 404
      /\ res[c].ended = <<T_NotFound>>
      /\ body[c] = <<>>
      /\ pending[c] = req[c].chunks
      /\ calls[c] = <<>>
      /\ outcome[c] = NoOutcome

\* GET on a POST-only route.
C11_Witness ==
  /\ req[1].method = "GET"
  /\ req[1].url = "/plans"
  /\ Responded(1)
  /\ Status(1) = 404

(***************************************************************************)
(* C12: GET on exactly /health or /api/health is answered 200 with body    *)
(* {"status":"ok"}, whatever the Origin header.                            *)
(***************************************************************************)
C12_HealthIs200Ok ==
  \A c \in Conns :
    (req[c].method = "GET" /\ req[c].url \in HealthPaths) =>
      /\ pc[c] = "done"
      /\ Len(res[c].head) = 1
      /\ Status(c) = 200
      /\ res[c].ended = <<T_StatusOk>>
      /\ calls[c] = <<>>

\* The prefixed health path asked from an origin the classifier rejects.
C12_Witness ==
  /\ req[1].method = "GET"
  /\ req[1].url = "/api/health"
  /\ req[1].origin = Header(S_https \o S_evilHost)
  /\ Responded(1)
  /\ Status(1) = 200
  /\ "Access-Control-Allow-Origin" \notin DOMAIN SentHeaders(1)

(***************************************************************************)
(* C13: every response with a status other than 204 carries Content-Type   *)
(* application/json and a Content-Length equal to the byte length of its   *)
(* body; a 204 response carries neither.                                   *)
(***************************************************************************)
C13_TypeAndLengthOnEveryBody ==
  \A c \in Conns :
    Responded(c) =>
      IF Status(c) = 204
      THEN /\ "Content-Type" \notin DOMAIN SentHeaders(c)
           /\ "Content-Length" \notin DOMAIN SentHeaders(c)
      ELSE /\ "Content-Type" \in DOMAIN SentHeaders(c)
           /\ SentHeaders(c)["Content-Type"] = S_json
           /\ "Content-Length" \in DOMAIN SentHeaders(c)
           /\ SentHeaders(c)["Content-Length"] = NumText(ByteLength(SentBody(c)))

(***************************************************************************)
(* C14: every request that has been received eventually has its response   *)
(* ended, on every path: preflight, health, not found, invalid JSON,       *)
(* collaborator success and collaborator failure.                          *)
(***************************************************************************)
C14_EveryRequestIsAnswered ==
  \A c \in Conns : (pc[c] # "idle") ~> (Len(res[c].ended) = 1)

\* A collaborator failure after a body received in several chunks has been
\* answered.
C14_Witness ==
  /\ Len(req[1].chunks) > 1
  /\ outcome[1].kind = "error"
  /\ pc[1] = "done"
  /\ Len(res[1].ended) = 1

(***************************************************************************)
(* C15: the Origin header influences only Access-Control-Allow-Origin and  *)
(* Vary.  Two requests with the same method, path and body chunks, at the  *)
(* same point of their handling and with the same collaborator outcome,    *)
(* have the same status, the same response body, the same headers other    *)
(* than those two and the same collaborator invocation, whatever their     *)
(* Origin headers; and no request is answered 403.                         *)
(***************************************************************************)
OriginHeaders == {"Access-Control-Allow-Origin", "Vary"}

WithoutOriginHeaders(h) == [n \in DOMAIN h \ OriginHeaders |-> h[n]]

\* What the Origin header may not influence, for the response of c.
OriginBlind(c) ==
  [status |-> [k \in DOMAIN res[c].head |-> res[c].head[k].status],
   headers |-> [k \in DOMAIN res[c].head |->
                  WithoutOriginHeaders(res[c].head[k].headers)],
   ended |-> res[c].ended,
   body |-> body[c],
   calls |-> calls[c]]

DifferOnlyInOrigin(c, d) ==
  /\ pc[c] # "idle" /\ pc[d] # "idle"
  /\ req[c].method = req[d].method
  /\ req[c].url = req[d].url
  /\ req[c].chunks = req[d].chunks

SameProgress(c, d) ==
  /\ pc[c] = pc[d]
  /\ pending[c] = pending[d]
  /\ outcome[c] = outcome[d]

C15_OriginOnlyChangesCorsHeaders ==
  /\ \A c \in PairConns, d \in PairConns :
       DifferOnlyInOrigin(c, d) /\ SameProgress(c, d)
         => OriginBlind(c) = OriginBlind(d)
  /\ \A c \in PairConns : Responded(c) => Status(c) # 403

\* A trusted and an untrusted POST /plans, both answered with the same value;
\* only the trusted one carries Access-Control-Allow-Origin.
C15_Witness ==
  /\ DifferOnlyInOrigin(1, 2) /\ SameProgress(1, 2)
  /\ req[1].method = "POST" /\ req[1].url = "/plans"
  /\ req[1].origin = Header(S_https \o S_sunfire)
  /\ req[2].origin = Header(S_https \o S_evilHost)
  /\ pc[1] = "done" /\ outcome[1].kind = "value"
  /\ Status(1) = 200 /\ Status(2) = 200
  /\ "Access-Control-Allow-Origin" \in DOMAIN SentHeaders(1)
  /\ "Access-Control-Allow-Origin" \notin DOMAIN SentHeaders(2)
  /\ Len(calls[2]) = 1

(***************************************************************************)
(* C17: for a POST request JSON parsing is attempted only after the        *)
(* end-of-stream, on the concatenation of all the chunks received in       *)
(* order: once the 'end' listener has run, no chunk is undelivered and the *)
(* text that was parsed is the whole request body, however the transport   *)
(* split it into chunks.                                                   *)
(***************************************************************************)
Parsed(c) == req[c].method = "POST" /\ pc[c] \in {"awaiting", "done"}

C17_ParsedTextIsWholeBody ==
  \A c \in Conns :
    Parsed(c) => pending[c] = <<>> /\ body[c] = WholeBody(c)

(***************************************************************************)
(* C18: per request at most one collaborator call is made, also after a    *)
(* failure (no retry), and a call is made only for a POST on one of the    *)
(* four paths whose body is empty or parses as JSON: fetchPlans on the     *)
(* plan paths, generateClosingScript on the script paths.                  *)
(***************************************************************************)
BodyParses(c) == JSONparse(IF body[c] = <<>> THEN <<"{", "}">> ELSE body[c]).ok

C18_AtMostOneCollaboratorCall ==
  \A c \in Conns :
    /\ Len(calls[c]) <= 1
    /\ calls[c] # <<>> =>
         /\ req[c].method = "POST"
         /\ req[c].url \in PlanPaths \cup ScriptPaths
         /\ req[c].url \in PlanPaths <=> calls[c][1].fn = "fetchPlans"
         /\ req[c].url \in ScriptPaths <=> calls[c][1].fn = "generateClosingScript"
         /\ BodyParses(c)
    /\ (req[c].method # "POST"
        \/ req[c].url \notin PlanPaths \cup ScriptPaths
        \/ (pc[c] = "done" /\ ~BodyParses(c))) => calls[c] = <<>>

\* A script request whose collaborator failed: one call, answered 500.
C18_Witness ==
  /\ req[1].method = "POST" /\ req[1].url = "/ai-recommend"
  /\ pc[1] = "done" /\ outcome[1].kind = "error"
  /\ Status(1) = 500
  /\ Len(calls[1]) = 1 /\ calls[1][1].fn = "generateClosingScript"

(***************************************************************************)
(* C19: with several requests in flight, interleaved in any order, the     *)
(* state of each request (its body string, its collaborator call, its      *)
(* response status, headers and body) is the one its own method, path,     *)
(* Origin, delivered chunks and collaborator outcome produce when the      *)
(* request is handled alone; a connection that received no request has an  *)
(* untouched response.                                                     *)
(***************************************************************************)
RECURSIVE Accumulate(_, _)
Accumulate(text, chunks) ==
  IF chunks = <<>> THEN text
  ELSE Accumulate(HandleData(text, Head(chunks)), Tail(chunks))

\* The chunks of its own body that c has received.
Delivered(c) == SubSeq(req[c].chunks, 1, Len(req[c].chunks) - Len(pending[c]))

\* The handler run on c's own request alone.
OwnStart(c) == HandleRequest(req[c], NewResponse)

\* The 'end' listener of c, if it has run, on c's own body alone; h0 is the
\* handler's result.
OwnEnd(c, h0) ==
  IF h0.pc = "done" \/ pc[c] = "buffering"
  THEN [res |-> h0.res, pc |-> h0.pc, call |-> NoCall]
  ELSE HandleEnd(req[c], Accumulate(<<>>, req[c].chunks), h0.res)

\* The continuation after the await, if it has run; h1 is the listener's
\* result.
OwnResponse(c, h1) ==
  IF outcome[c].kind = "value" THEN HandleResolve(h1.res, outcome[c].v)
  ELSE IF outcome[c].kind = "error" THEN HandleReject(h1.res, outcome[c].e)
  ELSE h1.res

C19_RequestsAreIsolated ==
  \A c \in Conns :
    /\ body[c] = Accumulate(<<>>, Delivered(c))
    /\ pc[c] = "idle" => res[c] = NewResponse /\ calls[c] = <<>>
    /\ pc[c] # "idle" =>
         \E h0 \in {OwnStart(c)} :
           \E h1 \in {OwnEnd(c, h0)} :
             /\ res[c] = OwnResponse(c, h1)
             /\ calls[c] = h1.call

\* Connection 1 is in the middle of its body while connection 2, on another
\* path, has already been answered 500.
C19_Witness ==
  /\ pc[1] = "buffering" /\ body[1] # <<>> /\ pending[1] # <<>>
  /\ req[1].url = "/unknown-path"
  /\ req[2].url = "/plans"
  /\ req[1].origin # req[2].origin
  /\ pc[2] = "done" /\ outcome[2].kind = "error" /\ Status(2) = 500
  /\ ~Responded(1)

(***************************************************************************)
(* C16: pingAzure issues GET <base>/api/health, <base> being the           *)
(* configured API base without a trailing slash, and reports reachable     *)
(* exactly when the fetch settled with a response of status 200.           *)
(***************************************************************************)
ConfiguredBases == {DEFAULT_API_BASE, S_customBase}

C16_ReachableIffStatus200 ==
  ping.pc = "done" =>
    /\ ping.method = "GET"
    /\ \E base \in ConfiguredBases : ping.url = base \o S_apiHealth
    /\ ping.ok <=> (ping.response.kind = "response" /\ ping.response.status = 200)

(***************************************************************************)
(* C20: in the content script STATE.mounted is true if and only if         *)
(* HOST_CONTAINER is non-null, and at most one HUD host element is         *)
(* attached to the document, after any sequence of injections, toggle      *)
(* messages, close clicks and mount attempts that may fail part-way.       *)
(***************************************************************************)
C20_MountedIffHostContainer ==
  /\ State.mounted <=> HOST_CONTAINER # 0
  /\ Cardinality(attached) <= 1

=============================================================================
